---- MODULE Spec2Model ----
(***************************************************************************)
(* Model of the display work queue of common/display/DisplayQueue.cpp:     *)
(* the WorkItem ring, the frame pool, the enqueue and drop paths, the      *)
(* consumer driver run by the worker thread, flush and releaseFrame.       *)
(*                                                                         *)
(* Every section of code that runs under mLockQueue without releasing it   *)
(* is one action.  The worker's doConsumeEvent/doConsumeFrame release the  *)
(* lock around the backend calls, so they are split at the unlock/lock     *)
(* pairs and the worker's position is kept in workerPc.                    *)
(*                                                                         *)
(* The DisplayQueue object (with its pool frames, the queued events and    *)
(* the worker's signal counter) is the record dq; helper operators take    *)
(* and return such a record, the way the methods act on *this.             *)
(***************************************************************************)
EXTENDS Integers, Sequences, FiniteSets, TLC

\* ------------------------------------------------------------ bounds
\* Number of frames in the pool (DisplayQueue::mFramePoolCount).
mFramePoolCount == 2
\* Event objects that can be allocated at the same time.
MaxEvents == 1
\* Largest hwc/timeline index the producer supplies.
MaxIndex == 2
\* Work items enqueued over a run.
MaxWork == 3
\* Work items enqueued over a run with flush calls.
MaxFlushWork == 2
\* Work items enqueued over a run of the fair specification.
MaxFairWork == 2
\* Work items enqueued over a run that ends in the destruction of the queue.
MaxDestroyWork == 2
\* Cap of Worker::mSignalled for the signals of notifyReady and doFlush.
MaxSignalled == 1
\* Width of the index counters (uint32_t in the source).
IndexWidth == 8
\* Minimum number of allocated layers.
cMinimumLayerAllocCount == 8

IndexModulus == 2 ^ IndexWidth

NULL == 0
Frames == 1 .. mFramePoolCount
Events == (mFramePoolCount + 1) .. (mFramePoolCount + MaxEvents)
Items == Frames \cup Events

NoThread == "none"
Threads == {"producer", "worker"}

\* Layer stack sizes the producer submits.
StackSizes == {1}

VARIABLES
    dq,            \* the DisplayQueue object
    mLockQueue,    \* owner of the queue lock between actions, or NoThread
    workerPc,      \* position of the worker thread
    wLocal,        \* locals of the worker: pFrame/pEvent, effectiveIssuedFrame
    backendFrames, \* frames handed to the backend and not yet released by it
    flushPc,       \* position of the thread inside flush
    flushRec       \* locals of that flush call

vars == <<dq, mLockQueue, workerPc, wLocal, backendFrames, flushPc, flushRec>>

\* ------------------------------------------------------------ FrameId
\* FrameId( hwcIndex, timelineIndex ) is the pair <<hwcIndex, timelineIndex>>.
FrameIdZero == <<0, 0>>

getHwcIndex(id) == id[1]

getTimelineIndex(id) == id[2]

\* int32_t( a - b ) of two unsigned indices.
SignedDiff(a, b) ==
    LET d == (a - b) % IndexModulus
    IN  IF d >= IndexModulus \div 2 THEN d - IndexModulus ELSE d

\* What FrameId::validateFutureFrame( id ) asserts: id is not before self.
IsFutureFrame(self, id) ==
    /\ SignedDiff(getHwcIndex(id), getHwcIndex(self)) >= 0
    /\ SignedDiff(getTimelineIndex(id), getTimelineIndex(self)) >= 0

\* ------------------------------------------------------------ WorkItem ring
IsFrame(w) == w \in Frames

isQueued(q, w) == q.mpPrev[w] # NULL /\ q.mpNext[w] # NULL

getNext(q, w) == q.mpNext[w]

getLast(q, w) == q.mpPrev[w]

\* WorkItem::queue linking the new item in front of the head instead of behind
\* the tail.
WorkItemQueue_AtHead(q, pNewWork) ==
    IF q.mpWorkQueue = NULL
    THEN [q EXCEPT !.mpWorkQueue = pNewWork,
                   !.mpNext[pNewWork] = pNewWork,
                   !.mpPrev[pNewWork] = pNewWork]
    ELSE LET head == q.mpWorkQueue
             last == q.mpPrev[q.mpWorkQueue]
         IN  [q EXCEPT !.mpNext[last] = pNewWork,
                       !.mpPrev[pNewWork] = last,
                       !.mpNext[pNewWork] = head,
                       !.mpPrev[head] = pNewWork,
                       !.mpWorkQueue = pNewWork]

WorkItemQueue(q, pNewWork) ==
    IF q.mpWorkQueue = NULL
    THEN [q EXCEPT !.mpWorkQueue = pNewWork,
                   !.mpNext[pNewWork] = pNewWork,
                   !.mpPrev[pNewWork] = pNewWork]
    ELSE LET head == q.mpWorkQueue
             last == q.mpPrev[q.mpWorkQueue]
         IN  [q EXCEPT !.mpNext[last] = pNewWork,
                       !.mpPrev[pNewWork] = last,
                       !.mpNext[pNewWork] = head,
                       !.mpPrev[head] = pNewWork]

\* WorkItem::dequeue that leaves *pQueue at a dequeued head.
WorkItemDequeue_KeepsHead(q, pOldWork) ==
    LET pNext == q.mpNext[pOldWork]
        pPrev == q.mpPrev[pOldWork]
    IN  [q EXCEPT !.mpNext[pPrev] = pNext,
                  !.mpPrev[pNext] = pPrev,
                  !.mpPrev[pOldWork] = NULL,
                  !.mpNext[pOldWork] = NULL]


WorkItemDequeue(q, pOldWork) ==
    LET pNext == q.mpNext[pOldWork]
        pPrev == q.mpPrev[pOldWork]
    IN  [q EXCEPT !.mpNext[pPrev] = pNext,
                  !.mpPrev[pNext] = pPrev,
                  !.mpPrev[pOldWork] = NULL,
                  !.mpNext[pOldWork] = NULL,
                  !.mpWorkQueue = IF pOldWork = q.mpWorkQueue
                                  THEN (IF pNext = pOldWork THEN NULL ELSE pNext)
                                  ELSE @]

\* The ring read from the head along mpNext, as a sequence of items.
RECURSIVE RingFrom(_, _, _)
RingFrom(q, w, n) ==
    IF n = 0 \/ w = NULL THEN <<>>
    ELSE IF q.mpNext[w] = q.mpWorkQueue \/ q.mpNext[w] = NULL THEN <<w>>
    ELSE <<w>> \o RingFrom(q, q.mpNext[w], n - 1)

Ring(q) == RingFrom(q, q.mpWorkQueue, Cardinality(Items))

\* ------------------------------------------------------------ Frame
\* Every pool frame is given the type eFT_DISPLAY_QUEUE by the constructor.
getType(q, f) == "eFT_DISPLAY_QUEUE"

isLockedForDisplay(q, f) == q.mbLockedForDisplay[f]

\* Frame::isRenderingComplete: every layer's rendering is complete.  The state
\* of the layers' acquire fences is the field rendered.
isRenderingComplete(q, f) == q.rendered[f]

\* Frame::reset( bCancel ): FrameLayer::reset on every layer closes the acquire
\* fence when it is open (mAcquireFence >= 0), cancels the release fence when
\* bCancel, and clears mbSet.  hFenceCloses counts the closeFence calls since
\* the frame was set and hCancelled says that the release fence of the layers
\* as last set was cancelled.
FrameReset(q, f, bCancel) ==
    [q EXCEPT !.mbLockedForDisplay[f] = FALSE,
              !.mAcquireFence[f] = -1,
              !.hFenceCloses[f] = IF q.mAcquireFence[f] >= 0 THEN @ + 1 ELSE @,
              !.hCancelled[f] = IF bCancel THEN TRUE ELSE @,
              !.mbSet[f] = FALSE,
              !.rendered[f] = FALSE]

lockFrameForDisplay(q, f) ==
    [q EXCEPT !.mbLockedForDisplay[f] = TRUE,
              !.mFramesLockedForDisplay = @ + 1]

unlockFrameForDisplay(q, f) ==
    [q EXCEPT !.mbLockedForDisplay[f] = FALSE,
              !.mFramesLockedForDisplay = @ - 1]

\* A frame that has gone back to the pool.  Its id, validity, layer count and
\* effective frame are written by the next queueFrame (Frame::set and
\* setEffectiveFrame) before anything reads them, so the values left behind
\* are not kept apart: they are set to those of a new frame.
FramePooled(q, f) ==
    [q EXCEPT !.mFrameId[f] = FrameIdZero,
              !.mEffectiveFrame[f] = FrameIdZero,
              !.mbValid[f] = FALSE,
              !.mLayerCount[f] = 0,
              !.hSeqOf[f] = 0]

\* ------------------------------------------------------------ drop paths
\* dropFrame that resets the frame without cancel.
dropFrame_NoCancel(q, pFrame) ==
    LET q1 == [q EXCEPT !.mLastDroppedFrame = q.mFrameId[pFrame]]
        q2 == WorkItemDequeue(q1, pFrame)
        q3 == [q2 EXCEPT !.mQueuedFrames = @ - 1,
                         !.mQueuedWork = @ - 1,
                         !.mFramePoolUsed = @ - 1]
        q4 == FrameReset(q3, pFrame, FALSE)
    IN  FramePooled(q4, pFrame)


\* dropFrame without the decrement of mQueuedFrames.
dropFrame_KeepsQueuedFrames(q, pFrame) ==
    LET q1 == [q EXCEPT !.mLastDroppedFrame = q.mFrameId[pFrame]]
        q2 == WorkItemDequeue(q1, pFrame)
        q3 == [q2 EXCEPT !.mQueuedWork = @ - 1,
                         !.mFramePoolUsed = @ - 1]
        q4 == FrameReset(q3, pFrame, TRUE)
    IN  FramePooled(q4, pFrame)

\* dropFrame that records the dropped frame as issued.
dropFrame_AdvancesIssued(q, pFrame) ==
    LET q1 == [q EXCEPT !.mLastDroppedFrame = q.mFrameId[pFrame],
                        !.mLastIssuedFrame = q.mFrameId[pFrame]]
        q2 == WorkItemDequeue(q1, pFrame)
        q3 == [q2 EXCEPT !.mQueuedFrames = @ - 1,
                         !.mQueuedWork = @ - 1,
                         !.mFramePoolUsed = @ - 1]
        q4 == FrameReset(q3, pFrame, TRUE)
    IN  FramePooled(q4, pFrame)


dropFrame(q, pFrame) ==
    LET q1 == [q EXCEPT !.mLastDroppedFrame = q.mFrameId[pFrame]]
        q2 == WorkItemDequeue(q1, pFrame)
        q3 == [q2 EXCEPT !.mQueuedFrames = @ - 1,
                         !.mQueuedWork = @ - 1,
                         !.mFramePoolUsed = @ - 1]
        q4 == FrameReset(q3, pFrame, TRUE)
    IN  FramePooled(q4, pFrame)

\* The while loop of dropAllFrames with bDone computed after the drop.
RECURSIVE DropAllLoop_DoneAfterDrop(_, _, _)
DropAllLoop_DoneAfterDrop(q, pWork, bDone) ==
    IF bDone THEN q
    ELSE LET pNext == getNext(q, pWork)
             q1 == IF /\ IsFrame(pWork)
                      /\ ~isLockedForDisplay(q, pWork)
                      /\ getType(q, pWork) = "eFT_DISPLAY_QUEUE"
                   THEN dropFrame(q, pWork)
                   ELSE q
             done == (pNext = q1.mpWorkQueue)
         IN  DropAllLoop_DoneAfterDrop(q1, pNext, done)


\* The while loop of dropAllFrames; mpWorkQueue is read again on every pass.
RECURSIVE DropAllLoop(_, _, _)
DropAllLoop(q, pWork, bDone) ==
    IF bDone THEN q
    ELSE LET pNext == getNext(q, pWork)
             done == (pNext = q.mpWorkQueue)
             q1 == IF /\ IsFrame(pWork)
                      /\ ~isLockedForDisplay(q, pWork)
                      /\ getType(q, pWork) = "eFT_DISPLAY_QUEUE"
                   THEN dropFrame(q, pWork)
                   ELSE q
         IN  DropAllLoop(q1, pNext, done)

doDropAllFrames(q) == DropAllLoop(q, q.mpWorkQueue, q.mpWorkQueue = NULL)

\* The items the while loop of dropAllFrames visits, in the order of the
\* visits.
RECURSIVE DropAllVisits(_, _, _)
DropAllVisits(q, pWork, bDone) ==
    IF bDone THEN << >>
    ELSE LET pNext == getNext(q, pWork)
             done == (pNext = q.mpWorkQueue)
             q1 == IF /\ IsFrame(pWork)
                      /\ ~isLockedForDisplay(q, pWork)
                      /\ getType(q, pWork) = "eFT_DISPLAY_QUEUE"
                   THEN dropFrame(q, pWork)
                   ELSE q
         IN  <<pWork>> \o DropAllVisits(q1, pNext, done)


\* The loop of doDropRedundantFrames that never updates bNewerComplete.
RECURSIVE DropRedundantLoop_StaleNewer(_, _, _)
DropRedundantLoop_StaleNewer(q, pCurrent, bNewerComplete) ==
    LET bReachedHead == (pCurrent = q.mpWorkQueue)
        pNext == getLast(q, pCurrent)
        drop == IsFrame(pCurrent) /\ bNewerComplete /\ ~isLockedForDisplay(q, pCurrent)
        q1 == IF drop THEN dropFrame(q, pCurrent) ELSE q
    IN  IF bReachedHead THEN q1
        ELSE DropRedundantLoop_StaleNewer(q1, pNext, bNewerComplete)


\* The for(;;) loop of doDropRedundantFrames, from newer to older items.
RECURSIVE DropRedundantLoop(_, _, _)
DropRedundantLoop(q, pCurrent, bNewerComplete) ==
    LET bReachedHead == (pCurrent = q.mpWorkQueue)
        pNext == getLast(q, pCurrent)
        drop == IsFrame(pCurrent) /\ bNewerComplete /\ ~isLockedForDisplay(q, pCurrent)
        q1 == IF drop THEN dropFrame(q, pCurrent) ELSE q
        newer == IF IsFrame(pCurrent) /\ ~bNewerComplete
                 THEN isRenderingComplete(q, pCurrent)
                 ELSE bNewerComplete
    IN  IF bReachedHead THEN q1 ELSE DropRedundantLoop(q1, pNext, newer)

doDropRedundantFrames(q) ==
    IF q.mpWorkQueue = NULL THEN q
    ELSE LET pNewer == getLast(q, q.mpWorkQueue)
         IN  IF pNewer = q.mpWorkQueue THEN q
             ELSE DropRedundantLoop(q, getLast(q, pNewer),
                                    IsFrame(pNewer) /\ isRenderingComplete(q, pNewer))

\* limitUsedFrames: the bounded wait after the drop is compiled out.
limitUsedFrames(q) == doDropRedundantFrames(q)

\* The loop of findFree keeping the newest queued frame instead of the oldest.
RECURSIVE FindFreeScan_Newest(_, _, _)
FindFreeScan_Newest(q, f, pOldest) ==
    IF f > mFramePoolCount THEN <<"oldest", pOldest>>
    ELSE IF isLockedForDisplay(q, f) THEN FindFreeScan_Newest(q, f + 1, pOldest)
    ELSE IF ~isQueued(q, f) THEN <<"free", f>>
    ELSE IF \/ pOldest = NULL
            \/ SignedDiff(getTimelineIndex(q.mFrameId[pOldest]),
                          getTimelineIndex(q.mFrameId[f])) < 0
         THEN FindFreeScan_Newest(q, f + 1, f)
         ELSE FindFreeScan_Newest(q, f + 1, pOldest)


\* The loop of findFree without the test of isLockedForDisplay.
RECURSIVE FindFreeScan_IgnoresLock(_, _, _)
FindFreeScan_IgnoresLock(q, f, pOldest) ==
    IF f > mFramePoolCount THEN <<"oldest", pOldest>>
    ELSE IF ~isQueued(q, f) THEN <<"free", f>>
    ELSE IF \/ pOldest = NULL
            \/ SignedDiff(getTimelineIndex(q.mFrameId[pOldest]),
                          getTimelineIndex(q.mFrameId[f])) > 0
         THEN FindFreeScan_IgnoresLock(q, f + 1, f)
         ELSE FindFreeScan_IgnoresLock(q, f + 1, pOldest)


\* The for loop of findFree over the pool: <<"free", f>> for the first frame
\* neither locked nor queued, else <<"oldest", pOldest>> (pOldest may be NULL).
RECURSIVE FindFreeScan(_, _, _)
FindFreeScan(q, f, pOldest) ==
    IF f > mFramePoolCount THEN <<"oldest", pOldest>>
    ELSE IF isLockedForDisplay(q, f) THEN FindFreeScan(q, f + 1, pOldest)
    ELSE IF ~isQueued(q, f) THEN <<"free", f>>
    ELSE IF \/ pOldest = NULL
            \/ SignedDiff(getTimelineIndex(q.mFrameId[pOldest]),
                          getTimelineIndex(q.mFrameId[f])) > 0
         THEN FindFreeScan(q, f + 1, f)
         ELSE FindFreeScan(q, f + 1, pOldest)

\* findFree that gives up instead of dropping the oldest queued frame.
findFree_NoDrop(q) ==
    LET r == FindFreeScan(q, 1, NULL)
    IN  IF r[1] = "free" THEN [q |-> q, frame |-> r[2]]
        ELSE [q |-> q, frame |-> NULL]


\* findFree: the queue afterwards and the frame returned (NULL when none).
findFree(q) ==
    LET r == FindFreeScan(q, 1, NULL)
    IN  IF r[1] = "free" THEN [q |-> q, frame |-> r[2]]
        ELSE IF r[2] = NULL THEN [q |-> q, frame |-> NULL]
        ELSE [q |-> dropFrame(q, r[2]), frame |-> r[2]]

\* ------------------------------------------------------------ worker signal
\* signalWork that does not count the signal.
signalWork_Lost(q) == q


signalWork(q) == [q EXCEPT !.mSignalled = @ + 1]

\* startWorker creates the worker when there is none.
startWorker(q) == [q EXCEPT !.mpWorker = TRUE]

\* getWorkerTid( ) as it would be with Worker::getId returning the id of the
\* worker thread.
getWorkerTid_OfWorker(q, caller) == IF ~q.mpWorker THEN NoThread ELSE "worker"

\* getWorkerTid( ): Worker::getId returns std::this_thread::get_id(), the id of
\* the thread that asks.
getWorkerTid(q, caller) == IF ~q.mpWorker THEN NoThread ELSE caller

\* ------------------------------------------------------------ queue core
doAdvanceIssuedFrame(q, id) == [q EXCEPT !.mLastIssuedFrame = id]

doQueueWork(q, pWork) ==
    LET q1 == WorkItemQueue(q, pWork)
        q2 == [q1 EXCEPT !.mQueuedWork = @ + 1,
                         !.mQueuedFrames = IF IsFrame(pWork) THEN @ + 1 ELSE @,
                         !.hSeqOf[pWork] = q.hNextSeq,
                         !.hNextSeq = @ + 1]
        q3 == IF ~q2.mpWorker THEN startWorker(q2) ELSE q2
    IN  IF q3.mpWorker THEN signalWork(q3) ELSE q3

\* The loop of doInvalidateFrames without the test of isLockedForDisplay.
RECURSIVE InvalidateLoop_AlsoLocked(_, _, _)
InvalidateLoop_AlsoLocked(q, pWork, bDone) ==
    IF bDone THEN q
    ELSE LET pNext == getNext(q, pWork)
             done == (pNext = q.mpWorkQueue)
             q1 == IF IsFrame(pWork)
                   THEN [q EXCEPT !.mbValid[pWork] = FALSE]
                   ELSE q
         IN  InvalidateLoop_AlsoLocked(q1, pNext, done)


\* The loop of doInvalidateFrames.
RECURSIVE InvalidateLoop(_, _, _)
InvalidateLoop(q, pWork, bDone) ==
    IF bDone THEN q
    ELSE LET pNext == getNext(q, pWork)
             done == (pNext = q.mpWorkQueue)
             q1 == IF /\ IsFrame(pWork)
                      /\ ~isLockedForDisplay(q, pWork)
                      /\ getType(q, pWork) = "eFT_DISPLAY_QUEUE"
                   THEN [q EXCEPT !.mbValid[pWork] = FALSE]
                   ELSE q
         IN  InvalidateLoop(q1, pNext, done)

\* doInvalidateFrames that marks nothing.
doInvalidateFrames_None(q) == q

doInvalidateFrames(q) == InvalidateLoop(q, q.mpWorkQueue, q.mpWorkQueue = NULL)

\* doReleaseFrame that resets the frame with cancel.
doReleaseFrame_Cancels(q, pOldFrame) ==
    LET q1 == FrameReset(q, pOldFrame, TRUE)
    IN  FramePooled([q1 EXCEPT !.mFramesLockedForDisplay = @ - 1,
                               !.mFramePoolUsed = @ - 1],
                    pOldFrame)


\* doReleaseFrame that does not reset the frame.
doReleaseFrame_NoReset(q, pOldFrame) ==
    FramePooled([q EXCEPT !.mbLockedForDisplay[pOldFrame] = FALSE,
                          !.mFramesLockedForDisplay = @ - 1,
                          !.mFramePoolUsed = @ - 1],
                pOldFrame)


\* doReleaseFrame without the decrement of mFramePoolUsed.
doReleaseFrame_KeepsPoolUsed(q, pOldFrame) ==
    LET q1 == FrameReset(q, pOldFrame, FALSE)
    IN  FramePooled([q1 EXCEPT !.mFramesLockedForDisplay = @ - 1], pOldFrame)


doReleaseFrame(q, pOldFrame) ==
    LET q1 == FrameReset(q, pOldFrame, FALSE)
    IN  FramePooled([q1 EXCEPT !.mFramesLockedForDisplay = @ - 1,
                               !.mFramePoolUsed = @ - 1],
                    pOldFrame)

\* The descriptor that acquireRef.dup( ) returns in FrameLayer::set.
AcquireFenceDup == 3

\* Frame::set.  allocFails says whether new FrameLayer[] yields NULL when the
\* layers have to be reallocated.  The zorder and the config are payload that
\* no queue decision reads; they are left out.
FrameSet(q, f, id, stackSize, allocFails, bRendered) ==
    LET bReAllocLayers == q.mLayerAllocCount[f] < stackSize
        q1 == [q EXCEPT !.mFrameId[f] = id, !.mbValid[f] = TRUE]
        count == IF stackSize > cMinimumLayerAllocCount
                 THEN stackSize ELSE cMinimumLayerAllocCount
    IN  IF bReAllocLayers /\ allocFails
        THEN [q |-> [q1 EXCEPT !.mLayerAllocCount[f] = 0,
                               !.mLayerCount[f] = 0],
              ok |-> FALSE]
        ELSE LET q2 == IF bReAllocLayers
                       THEN [q1 EXCEPT !.mLayerAllocCount[f] = count]
                       ELSE q1
             IN  IF q2.mLayerAllocCount[f] < stackSize
                 THEN [q |-> q2, ok |-> FALSE]
                 ELSE [q |-> [q2 EXCEPT !.mLayerCount[f] = stackSize,
                                        !.mAcquireFence[f] = AcquireFenceDup,
                                        !.hFenceCloses[f] = 0,
                                        !.hCancelled[f] = FALSE,
                                        !.mbSet[f] = TRUE,
                                        !.rendered[f] = bRendered],
                       ok |-> TRUE]

\* ------------------------------------------------------------ initial state
NoFlush == [caller |-> NoThread, frameIndex |-> 0, timeoutNs |-> 0,
            maxConsume |-> 0, startConsumeCount |-> 0]

NoLocals == [pItem |-> NULL, effectiveIssuedFrame |-> FrameIdZero]

\* The DisplayQueue after its constructor, with the given behaviour flags.
NewDisplayQueue(behaviourFlags) ==
    [ mBehaviourFlags |-> behaviourFlags,
      mpWorkQueue |-> NULL,
      mpNext |-> [i \in Items |-> NULL],
      mpPrev |-> [i \in Items |-> NULL],
      mEffectiveFrame |-> [i \in Items |-> FrameIdZero],
      mFrameId |-> [f \in Frames |-> FrameIdZero],
      mbLockedForDisplay |-> [f \in Frames |-> FALSE],
      mbValid |-> [f \in Frames |-> FALSE],
      mLayerAllocCount |-> [f \in Frames |-> 0],
      mLayerCount |-> [f \in Frames |-> 0],
      mbSet |-> [f \in Frames |-> FALSE],
      mAcquireFence |-> [f \in Frames |-> -1],
      rendered |-> [f \in Frames |-> FALSE],
      mQueuedWork |-> 0,
      mQueuedFrames |-> 0,
      mFramesLockedForDisplay |-> 0,
      mFramePoolUsed |-> 0,
      mFramePoolPeak |-> 0,
      mConsumedWork |-> 0,
      mConsumedFramesSinceInit |-> 0,
      mLastQueuedFrame |-> FrameIdZero,
      mLastIssuedFrame |-> FrameIdZero,
      mLastDroppedFrame |-> FrameIdZero,
      mbConsumerBlocked |-> FALSE,
      mpWorker |-> FALSE,
      mSignalled |-> 0,
      exitPending |-> FALSE,
      hDestroyed |-> FALSE,
      heapEvents |-> {},
      \* history, not read by the program
      hSeqOf |-> [i \in Items |-> 0],
      hNextSeq |-> 1,
      hLastPassed |-> 0,
      hDropLast |-> FALSE,
      hFenceCloses |-> [f \in Frames |-> 0],
      hCancelled |-> [f \in Frames |-> FALSE] ]

Init ==
    /\ dq \in {NewDisplayQueue(flags) : flags \in {{}, {"eBF_SYNC_BEFORE_FLIP"}}}
    /\ mLockQueue = NoThread
    /\ workerPc = "drop"
    /\ wLocal = NoLocals
    /\ backendFrames = {}
    /\ flushPc = "idle"
    /\ flushRec = NoFlush

LockFree == mLockQueue = NoThread

\* Outcomes of new FrameLayer[] in Frame::set: whether it yields NULL.  Plain
\* operator new[] does not return NULL.
AllocFails == {FALSE}

\* Frame ids the producer may supply next: not before the last queued one
\* (validateFutureFrame), the hwc index advanced by at most one and the
\* timeline index by no more than the hwc index.
NextFrameIds ==
    {id \in (0 .. MaxIndex) \X (0 .. MaxIndex) :
        /\ IsFutureFrame(dq.mLastQueuedFrame, id)
        /\ getHwcIndex(id) - getHwcIndex(dq.mLastQueuedFrame) <= 1
        /\ getTimelineIndex(id) - getTimelineIndex(dq.mLastQueuedFrame)
              = getHwcIndex(id) - getHwcIndex(dq.mLastQueuedFrame)}

CanQueue == dq.hNextSeq <= MaxWork

\* ------------------------------------------------------------ producer calls
\* queueEvent that leaves the event's effective frame at its initial value.
queueEvent_NoEffectiveFrame(q, pEvent) ==
    doQueueWork([q EXCEPT !.heapEvents = @ \cup {pEvent},
                          !.mEffectiveFrame[pEvent] = FrameIdZero],
                pEvent)

queueEvent(q, pEvent) ==
    doQueueWork([q EXCEPT !.heapEvents = @ \cup {pEvent},
                          !.mEffectiveFrame[pEvent] = q.mLastQueuedFrame],
                pEvent)

QueueEvent ==
    /\ LockFree /\ CanQueue
    /\ \E pEvent \in Events \ dq.heapEvents : dq' = queueEvent(dq, pEvent)
    /\ UNCHANGED <<mLockQueue, workerPc, wLocal, backendFrames, flushPc, flushRec>>

queueFrame(q, id, stackSize, allocFails, bRendered) ==
    LET q0 == [q EXCEPT !.hDropLast = FALSE]
        q1 == limitUsedFrames(q0)
        r == findFree(q1)
        pNewFrame == r.frame
        used == r.q.mFramePoolUsed + 1
        q2 == [r.q EXCEPT !.mFramePoolUsed = used,
                          !.mFramePoolPeak = IF used > @ THEN used ELSE @]
        s == FrameSet(q2, pNewFrame, id, stackSize, allocFails, bRendered)
        q3 == [s.q EXCEPT !.mEffectiveFrame[pNewFrame] = id,
                          !.mLastQueuedFrame = id]
    IN  IF pNewFrame = NULL THEN r.q
        ELSE IF ~s.ok THEN s.q
        ELSE doQueueWork(q3, pNewFrame)

QueueFrame ==
    /\ LockFree /\ CanQueue
    /\ \E id \in NextFrameIds, stackSize \in StackSizes, bRendered \in BOOLEAN,
          allocFails \in AllocFails :
            dq' = queueFrame(dq, id, stackSize, allocFails, bRendered)
    /\ UNCHANGED <<mLockQueue, workerPc, wLocal, backendFrames, flushPc, flushRec>>

\* queueDrop that also advances the issued frame when work is queued.
queueDrop_AdvancesIssued(q, id) ==
    LET pLastItem == IF q.mpWorkQueue # NULL THEN getLast(q, q.mpWorkQueue) ELSE NULL
        q1 == IF pLastItem = NULL
              THEN doAdvanceIssuedFrame(q, id)
              ELSE doAdvanceIssuedFrame([q EXCEPT !.mEffectiveFrame[pLastItem] = id], id)
    IN  [q1 EXCEPT !.mLastQueuedFrame = id, !.hDropLast = TRUE]


\* queueDrop that does not record the id as the last queued frame.
queueDrop_KeepsLastQueued(q, id) ==
    LET pLastItem == IF q.mpWorkQueue # NULL THEN getLast(q, q.mpWorkQueue) ELSE NULL
        q1 == IF pLastItem = NULL
              THEN doAdvanceIssuedFrame(q, id)
              ELSE [q EXCEPT !.mEffectiveFrame[pLastItem] = id]
    IN  [q1 EXCEPT !.hDropLast = TRUE]

\* queueDrop that rewrites the effective frame of the head instead of the tail.
queueDrop_RewritesHead(q, id) ==
    LET pLastItem == q.mpWorkQueue
        q1 == IF pLastItem = NULL
              THEN doAdvanceIssuedFrame(q, id)
              ELSE [q EXCEPT !.mEffectiveFrame[pLastItem] = id]
    IN  [q1 EXCEPT !.mLastQueuedFrame = id, !.hDropLast = TRUE]

queueDrop(q, id) ==
    LET pLastItem == IF q.mpWorkQueue # NULL THEN getLast(q, q.mpWorkQueue) ELSE NULL
        q1 == IF pLastItem = NULL
              THEN doAdvanceIssuedFrame(q, id)
              ELSE [q EXCEPT !.mEffectiveFrame[pLastItem] = id]
    IN  [q1 EXCEPT !.mLastQueuedFrame = id, !.hDropLast = TRUE]

QueueDrop ==
    /\ LockFree
    /\ \E id \in NextFrameIds : dq' = queueDrop(dq, id)
    /\ UNCHANGED <<mLockQueue, workerPc, wLocal, backendFrames, flushPc, flushRec>>

DropAllFrames ==
    /\ LockFree
    /\ dq' = doDropAllFrames(dq)
    /\ UNCHANGED <<mLockQueue, workerPc, wLocal, backendFrames, flushPc, flushRec>>

DropRedundantFrames ==
    /\ LockFree
    /\ dq' = doDropRedundantFrames(dq)
    /\ UNCHANGED <<mLockQueue, workerPc, wLocal, backendFrames, flushPc, flushRec>>

ConsumerBlocked ==
    /\ LockFree
    /\ ~dq.mbConsumerBlocked
    /\ dq' = [dq EXCEPT !.mbConsumerBlocked = TRUE]
    /\ UNCHANGED <<mLockQueue, workerPc, wLocal, backendFrames, flushPc, flushRec>>

ConsumerUnblocked ==
    /\ LockFree
    /\ dq.mbConsumerBlocked
    /\ dq' = [dq EXCEPT !.mbConsumerBlocked = FALSE]
    /\ UNCHANGED <<mLockQueue, workerPc, wLocal, backendFrames, flushPc, flushRec>>

notifyReady(q) == IF q.mpWorker THEN signalWork(q) ELSE q

NotifyReady ==
    /\ LockFree
    /\ dq.mpWorker /\ dq.mSignalled < MaxSignalled
    /\ dq' = notifyReady(dq)
    /\ UNCHANGED <<mLockQueue, workerPc, wLocal, backendFrames, flushPc, flushRec>>

\* ------------------------------------------------------------ backend
\* releaseFrame, called by the backend for a frame it was handed.
ReleaseFrame ==
    /\ LockFree
    /\ \E pOldFrame \in backendFrames :
        /\ dq' = doReleaseFrame(dq, pOldFrame)
        /\ backendFrames' = backendFrames \ {pOldFrame}
    /\ UNCHANGED <<mLockQueue, workerPc, wLocal, flushPc, flushRec>>

\* The acquire fences of a set frame signal.
RenderingCompletes ==
    /\ \E f \in Frames :
        /\ dq.mbSet[f] /\ ~dq.rendered[f]
        /\ dq' = [dq EXCEPT !.rendered[f] = TRUE]
    /\ UNCHANGED <<mLockQueue, workerPc, wLocal, backendFrames, flushPc, flushRec>>

\* ------------------------------------------------------------ worker thread
SyncBeforeFlip(q) == "eBF_SYNC_BEFORE_FLIP" \in q.mBehaviourFlags

\* Worker::HandleRoutine: mQueue.dropRedundantFrames() at the top of the loop.
WorkerDropRedundant ==
    /\ dq.mpWorker /\ workerPc = "drop" /\ LockFree
    /\ dq' = doDropRedundantFrames(dq)
    /\ workerPc' = "poll"
    /\ UNCHANGED <<mLockQueue, wLocal, backendFrames, flushPc, flushRec>>

\* The poll that does not look at getQueuedWork().
WorkerPoll_IgnoresWork ==
    /\ dq.mpWorker /\ workerPc = "poll"
    /\ \E ready \in BOOLEAN :
       LET bWaitForReady == ~ready
       IN  /\ wLocal' = wLocal
           /\ workerPc' = IF bWaitForReady THEN "wait" ELSE "consume"
    /\ UNCHANGED <<dq, mLockQueue, backendFrames, flushPc, flushRec>>


\* The poll of readyForNextWork(), whose result is the backend's to choose,
\* and of getQueuedWork().
WorkerPoll ==
    /\ dq.mpWorker /\ workerPc = "poll"
    /\ \E ready \in BOOLEAN :
       LET bWaitForReady == ~ready
           bWaitForWork == ready /\ dq.mQueuedWork = 0
       IN  /\ wLocal' = wLocal
           /\ workerPc' = IF bWaitForWork \/ bWaitForReady THEN "wait" ELSE "consume"
    /\ UNCHANGED <<dq, mLockQueue, backendFrames, flushPc, flushRec>>

\* The block under the worker's mLock: a pending signal is consumed; the waits
\* on mWork are compiled out, so the loop goes round either way.
WorkerWait ==
    /\ dq.mpWorker /\ workerPc = "wait"
    /\ dq' = IF dq.mSignalled > 0 THEN [dq EXCEPT !.mSignalled = @ - 1] ELSE dq
    /\ workerPc' = "drop"
    /\ wLocal' = NoLocals
    /\ UNCHANGED <<mLockQueue, backendFrames, flushPc, flushRec>>

\* doConsumeFrame that leaves the frame on the ring.
consumeFrameDequeue_KeepsQueued(q, pFrame) ==
    [q EXCEPT !.mConsumedFramesSinceInit = @ + 1,
              !.mConsumedWork = @ + 1,
              !.hLastPassed = q.hSeqOf[pFrame]]


\* doConsumeFrame from the dequeue to the unlock before the backend call.
consumeFrameDequeue(q, pFrame) ==
    LET q1 == WorkItemDequeue(q, pFrame)
    IN  [q1 EXCEPT !.mQueuedFrames = @ - 1,
                   !.mQueuedWork = @ - 1,
                   !.mConsumedFramesSinceInit = @ + 1,
                   !.mConsumedWork = @ + 1,
                   !.hLastPassed = q.hSeqOf[pFrame]]

\* consumeWork(): doConsumeWork up to the first unlock.
WorkerConsume ==
    /\ dq.mpWorker /\ workerPc = "consume" /\ LockFree
    /\ LET head == dq.mpWorkQueue
       IN  IF head = NULL
           THEN /\ workerPc' = "drop"
                /\ wLocal' = NoLocals
                /\ UNCHANGED <<dq, backendFrames>>
           ELSE IF IsFrame(head)
           THEN LET q1 == lockFrameForDisplay(dq, head)
                IN  IF SyncBeforeFlip(dq)
                    THEN /\ dq' = q1
                         /\ workerPc' = "waitRendering"
                         /\ wLocal' = [NoLocals EXCEPT !.pItem = head]
                         /\ UNCHANGED backendFrames
                    ELSE /\ dq' = consumeFrameDequeue(q1, head)
                         /\ workerPc' = "frameBackend"
                         /\ wLocal' = [NoLocals EXCEPT
                                          !.pItem = head,
                                          !.effectiveIssuedFrame = q1.mEffectiveFrame[head]]
                         /\ backendFrames' = backendFrames \cup {head}
           ELSE /\ dq' = [dq EXCEPT !.hLastPassed = dq.hSeqOf[head]]
                /\ workerPc' = "eventBackend"
                /\ wLocal' = [NoLocals EXCEPT !.pItem = head]
                /\ UNCHANGED backendFrames
    /\ UNCHANGED <<mLockQueue, flushPc, flushRec>>

\* doConsumeFrame after waitRendering without the pass of
\* doDropRedundantFrames: the frame waited on is the one handed over.
WorkerAfterWaitRendering_NoDropPass ==
    /\ dq.mpWorker /\ workerPc = "waitRendering" /\ LockFree
    /\ LET head == dq.mpWorkQueue
       IN  /\ dq' = consumeFrameDequeue(dq, head)
           /\ workerPc' = "frameBackend"
           /\ wLocal' = [NoLocals EXCEPT
                            !.pItem = head,
                            !.effectiveIssuedFrame = dq.mEffectiveFrame[head]]
           /\ backendFrames' = backendFrames \cup {head}
    /\ UNCHANGED <<mLockQueue, flushPc, flushRec>>


\* doConsumeFrame after waitRendering whose early return advances the issued
\* frame to the frame it dropped.
WorkerAfterWaitRendering_ReturnAdvances ==
    /\ dq.mpWorker /\ workerPc = "waitRendering" /\ LockFree
    /\ LET q1 == unlockFrameForDisplay(dq, wLocal.pItem)
           q2 == doDropRedundantFrames(q1)
           head == q2.mpWorkQueue
           q3 == lockFrameForDisplay(q2, head)
       IN  IF head = NULL \/ ~IsFrame(head)
           THEN /\ dq' = doAdvanceIssuedFrame(q2, q2.mLastDroppedFrame)
                /\ workerPc' = "drop"
                /\ wLocal' = NoLocals
                /\ UNCHANGED backendFrames
           ELSE /\ dq' = consumeFrameDequeue(q3, head)
                /\ workerPc' = "frameBackend"
                /\ wLocal' = [NoLocals EXCEPT
                                 !.pItem = head,
                                 !.effectiveIssuedFrame = q3.mEffectiveFrame[head]]
                /\ backendFrames' = backendFrames \cup {head}
    /\ UNCHANGED <<mLockQueue, flushPc, flushRec>>


\* doConsumeFrame with eBF_SYNC_BEFORE_FLIP, from the lock taken again after
\* waitRendering to the unlock before the backend call (or the early return).
WorkerAfterWaitRendering ==
    /\ dq.mpWorker /\ workerPc = "waitRendering" /\ LockFree
    /\ LET q1 == unlockFrameForDisplay(dq, wLocal.pItem)
           q2 == doDropRedundantFrames(q1)
           head == q2.mpWorkQueue
           q3 == lockFrameForDisplay(q2, head)
       IN  IF head = NULL \/ ~IsFrame(head)
           THEN /\ dq' = q2
                /\ workerPc' = "drop"
                /\ wLocal' = NoLocals
                /\ UNCHANGED backendFrames
           ELSE /\ dq' = consumeFrameDequeue(q3, head)
                /\ workerPc' = "frameBackend"
                /\ wLocal' = [NoLocals EXCEPT
                                 !.pItem = head,
                                 !.effectiveIssuedFrame = q3.mEffectiveFrame[head]]
                /\ backendFrames' = backendFrames \cup {head}
    /\ UNCHANGED <<mLockQueue, flushPc, flushRec>>

\* doConsumeFrame that reads the effective frame from the frame object after
\* the backend call.
WorkerFrameReturn_ReadsFrame ==
    /\ dq.mpWorker /\ workerPc = "frameBackend" /\ LockFree
    /\ dq' = doAdvanceIssuedFrame(dq, dq.mEffectiveFrame[wLocal.pItem])
    /\ workerPc' = "drop"
    /\ wLocal' = NoLocals
    /\ UNCHANGED <<mLockQueue, backendFrames, flushPc, flushRec>>


\* doConsumeFrame after the backend's consumeWork( pFrame ) has returned.
WorkerFrameReturn ==
    /\ dq.mpWorker /\ workerPc = "frameBackend" /\ LockFree
    /\ dq' = doAdvanceIssuedFrame(dq, wLocal.effectiveIssuedFrame)
    /\ workerPc' = "drop"
    /\ wLocal' = NoLocals
    /\ UNCHANGED <<mLockQueue, backendFrames, flushPc, flushRec>>

\* doConsumeEvent after the backend call that advances the issued frame to the
\* last queued frame instead of the event's effective frame.
consumeEventFinish_IssuesLastQueued(q, pEvent) ==
    LET q1 == WorkItemDequeue(q, pEvent)
        q2 == [q1 EXCEPT !.mQueuedWork = @ - 1, !.mConsumedWork = @ + 1]
        q3 == doAdvanceIssuedFrame(q2, q2.mLastQueuedFrame)
    IN  [q3 EXCEPT !.heapEvents = @ \ {pEvent},
                   !.mEffectiveFrame[pEvent] = FrameIdZero,
                   !.hSeqOf[pEvent] = 0]


\* doConsumeEvent after the backend call that leaves the event on the ring.
consumeEventFinish_KeepsQueued(q, pEvent) ==
    LET q2 == [q EXCEPT !.mConsumedWork = @ + 1]
        q3 == doAdvanceIssuedFrame(q2, q2.mEffectiveFrame[pEvent])
    IN  [q3 EXCEPT !.heapEvents = @ \ {pEvent}]


\* doConsumeEvent after the backend's consumeWork( pEvent ) has returned; the
\* deleted event object leaves the heap.
consumeEventFinish(q, pEvent) ==
    LET q1 == WorkItemDequeue(q, pEvent)
        q2 == [q1 EXCEPT !.mQueuedWork = @ - 1, !.mConsumedWork = @ + 1]
        q3 == doAdvanceIssuedFrame(q2, q2.mEffectiveFrame[pEvent])
    IN  [q3 EXCEPT !.heapEvents = @ \ {pEvent},
                   !.mEffectiveFrame[pEvent] = FrameIdZero,
                   !.hSeqOf[pEvent] = 0]

WorkerEventReturn ==
    /\ dq.mpWorker /\ workerPc = "eventBackend" /\ LockFree
    /\ dq' = consumeEventFinish(dq, wLocal.pItem)
    /\ workerPc' = "drop"
    /\ wLocal' = NoLocals
    /\ UNCHANGED <<mLockQueue, backendFrames, flushPc, flushRec>>

\* ------------------------------------------------------------ flush
\* The condition of the while loop of doFlush.
FlushLoopCondition(q, rec) ==
    /\ ~q.mbConsumerBlocked
    /\ q.mQueuedWork # 0
    /\ SignedDiff(q.mConsumedWork, rec.startConsumeCount) < rec.maxConsume
    /\ \/ rec.frameIndex = 0
       \/ SignedDiff(rec.frameIndex, getHwcIndex(q.mLastIssuedFrame)) > 0

\* flush() when doFlush is not entered or has returned false: the queued
\* frames are invalidated and flush returns.  The outcome of a step of flush
\* is the queue, the position of the call, its locals and the lock owner.
FlushFails(q) ==
    [q |-> doInvalidateFrames(q), pc |-> "idle", rec |-> NoFlush, lock |-> NoThread]

\* doFlush after its loop without the test of mbConsumerBlocked.
FlushAfterLoop_IgnoresBlocked(q, rec) ==
    [q |-> q, pc |-> "syncFlip", rec |-> NoFlush, lock |-> NoThread]

\* doFlush after its loop that calls syncFlip without releasing the lock.
FlushAfterLoop_KeepsLock(q, rec) ==
    IF q.mbConsumerBlocked
    THEN FlushFails(q)
    ELSE [q |-> q, pc |-> "syncFlip", rec |-> NoFlush, lock |-> rec.caller]


\* doFlush after its loop: false when the consumer is blocked, else the lock
\* is released for syncFlip().
FlushAfterLoop(q, rec) ==
    IF q.mbConsumerBlocked
    THEN FlushFails(q)
    ELSE [q |-> q, pc |-> "syncFlip", rec |-> NoFlush, lock |-> NoThread]

\* flush( frameIndex, timeoutNs ) on thread caller, up to its return, the loop
\* of doFlush or the unlock before syncFlip().
flush(q, caller, frameIndex, timeoutNs) ==
    LET rec == [NoFlush EXCEPT !.caller = caller,
                               !.frameIndex = frameIndex,
                               !.timeoutNs = timeoutNs]
    IN  IF getWorkerTid(q, caller) # caller /\ ~q.mbConsumerBlocked
        THEN IF q.mpWorker
             THEN [q |-> q, pc |-> "loop",
                   rec |-> [rec EXCEPT !.maxConsume = q.mQueuedWork,
                                       !.startConsumeCount = q.mConsumedWork],
                   lock |-> caller]
             ELSE FlushAfterLoop(q, rec)
        ELSE FlushFails(q)

FlushTo(r) ==
    /\ dq' = r.q
    /\ flushPc' = r.pc
    /\ flushRec' = r.rec
    /\ mLockQueue' = r.lock

\* Thread ids flush may be called on: the worker thread calls it only from
\* inside a backend call.
FlushCallers ==
    {"producer"} \cup {t \in {"worker"} :
                          dq.mpWorker /\ workerPc \in {"eventBackend", "frameBackend"}}

Flush(caller, frameIndex, timeoutNs) ==
    /\ flushPc = "idle" /\ LockFree
    /\ caller \in FlushCallers
    /\ FlushTo(flush(dq, caller, frameIndex, timeoutNs))
    /\ UNCHANGED <<workerPc, wLocal, backendFrames>>

FlushCall ==
    \E caller \in Threads, frameIndex \in 0 .. 1, timeoutNs \in 0 .. 1 :
        Flush(caller, frameIndex, timeoutNs)

\* flush() going on: one pass of the loop of doFlush (the waits on
\* mConditionWorkConsumed are compiled out, the lock stays held), or the
\* return of syncFlip(), after which doFlush returns true and flush returns.
FlushResume ==
    /\ flushPc \in {"loop", "syncFlip"}
    /\ IF flushPc = "loop"
       THEN IF FlushLoopCondition(dq, flushRec)
            THEN /\ dq.mSignalled < MaxSignalled
                 /\ dq' = signalWork(dq)
                 /\ UNCHANGED <<flushPc, flushRec, mLockQueue>>
            ELSE FlushTo(FlushAfterLoop(dq, flushRec))
       ELSE /\ LockFree
            /\ flushPc' = "idle"
            /\ flushRec' = NoFlush
            /\ UNCHANGED <<dq, mLockQueue>>
    /\ UNCHANGED <<workerPc, wLocal, backendFrames>>

\* ------------------------------------------------------------ specification
\* The producer, backend and worker steps.
Next ==
    \/ QueueEvent
    \/ QueueFrame
    \/ QueueDrop
    \/ DropAllFrames
    \/ DropRedundantFrames
    \/ NotifyReady
    \/ ReleaseFrame
    \/ RenderingCompletes
    \/ WorkerDropRedundant
    \/ WorkerPoll
    \/ WorkerWait
    \/ WorkerConsume
    \/ WorkerAfterWaitRendering
    \/ WorkerFrameReturn
    \/ WorkerEventReturn

Spec == Init /\ [][Next]_vars

\* The same steps with flush and the consumer-blocked notifications, over runs
\* that enqueue at most MaxFlushWork items.
FlushWorkBound == dq'.hNextSeq <= MaxFlushWork + 1

NextFlush ==
    \/ QueueEvent /\ FlushWorkBound
    \/ QueueFrame /\ FlushWorkBound
    \/ QueueDrop
    \/ DropAllFrames
    \/ DropRedundantFrames
    \/ NotifyReady
    \/ ReleaseFrame
    \/ RenderingCompletes
    \/ WorkerDropRedundant
    \/ WorkerPoll
    \/ WorkerWait
    \/ WorkerConsume
    \/ WorkerAfterWaitRendering
    \/ WorkerFrameReturn
    \/ WorkerEventReturn
    \/ ConsumerBlocked
    \/ ConsumerUnblocked
    \/ FlushCall
    \/ FlushResume

SpecFlush == Init /\ [][NextFlush]_vars

\* The producer, backend and worker steps over runs that enqueue at most
\* MaxFairWork items, with a worker thread that keeps running and a backend
\* that becomes ready for work it is polled about, returns from consumeWork
\* and releases the frames it holds.  The producer is not obliged to call.
FairWorkBound == dq'.hNextSeq <= MaxFairWork + 1

NextFair ==
    \/ QueueEvent /\ FairWorkBound
    \/ QueueFrame /\ FairWorkBound
    \/ QueueDrop
    \/ DropAllFrames
    \/ DropRedundantFrames
    \/ NotifyReady
    \/ ReleaseFrame
    \/ RenderingCompletes
    \/ WorkerDropRedundant
    \/ WorkerPoll
    \/ WorkerWait
    \/ WorkerConsume
    \/ WorkerAfterWaitRendering
    \/ WorkerFrameReturn
    \/ WorkerEventReturn

Fairness ==
    /\ WF_vars(WorkerDropRedundant)
    /\ WF_vars(WorkerPoll)
    /\ SF_vars(WorkerPoll /\ workerPc' = "consume")
    /\ WF_vars(WorkerWait)
    /\ WF_vars(WorkerConsume)
    /\ WF_vars(WorkerAfterWaitRendering)
    /\ WF_vars(WorkerFrameReturn)
    /\ WF_vars(WorkerEventReturn)
    /\ WF_vars(ReleaseFrame)

SpecFair == Init /\ [][NextFair]_vars /\ Fairness

\* ------------------------------------------------------------ destruction
\* The queue holds no work and no frame is locked for display: what
\* ~DisplayQueue asserts.
Drained(q) ==
    /\ q.mQueuedFrames = 0
    /\ q.mQueuedWork = 0
    /\ q.mFramesLockedForDisplay = 0

\* Worker::stop: the condition is signalled and the thread is told to exit.
stop(q) == [q EXCEPT !.exitPending = TRUE]

\* ~DisplayQueue up to the join of the worker thread: the queue lock is taken
\* and held; stopWorker destroys the worker, whose destructor calls stop.
DestructorEnter ==
    /\ LockFree /\ ~dq.hDestroyed
    /\ flushPc = "idle"
    /\ Drained(dq)
    /\ mLockQueue' = "destructor"
    /\ dq' = IF dq.mpWorker THEN stop(dq) ELSE dq
    /\ UNCHANGED <<workerPc, wLocal, backendFrames, flushPc, flushRec>>

\* ~DisplayQueue from the return of the join: mpWorker is NULL and the lock
\* guard lets the queue lock go.
DestructorReturn ==
    /\ mLockQueue = "destructor"
    /\ dq.mpWorker => workerPc = "exited"
    /\ mLockQueue' = NoThread
    /\ dq' = [dq EXCEPT !.mpWorker = FALSE, !.hDestroyed = TRUE]
    /\ UNCHANGED <<workerPc, wLocal, backendFrames, flushPc, flushRec>>

\* The worker thread between two calls of HandleRoutine finds that it was told
\* to exit.
WorkerExit ==
    /\ dq.mpWorker /\ workerPc = "drop"
    /\ dq.exitPending
    /\ workerPc' = "exited"
    /\ UNCHANGED <<dq, mLockQueue, wLocal, backendFrames, flushPc, flushRec>>

\* The wait block of HandleRoutine, with the top of the for (;;) loop kept
\* apart from the entry of HandleRoutine, where the thread can exit.
WorkerWaitInLoop ==
    /\ dq.mpWorker /\ workerPc = "wait"
    /\ dq' = IF dq.mSignalled > 0 THEN [dq EXCEPT !.mSignalled = @ - 1] ELSE dq
    /\ workerPc' = "loop"
    /\ wLocal' = NoLocals
    /\ UNCHANGED <<mLockQueue, backendFrames, flushPc, flushRec>>

\* mQueue.dropRedundantFrames() at the top of a further pass of the loop.
WorkerLoopDropRedundant ==
    /\ dq.mpWorker /\ workerPc = "loop" /\ LockFree
    /\ dq' = doDropRedundantFrames(dq)
    /\ workerPc' = "poll"
    /\ UNCHANGED <<mLockQueue, wLocal, backendFrames, flushPc, flushRec>>

\* A step of the worker thread.
WorkerStep ==
    \/ WorkerExit
    \/ WorkerDropRedundant
    \/ WorkerLoopDropRedundant
    \/ WorkerPoll
    \/ WorkerWaitInLoop
    \/ WorkerConsume
    \/ WorkerAfterWaitRendering
    \/ WorkerFrameReturn
    \/ WorkerEventReturn

\* The calls on the queue, none of them on a destroyed queue, over runs that
\* enqueue at most MaxDestroyWork items, the worker and the destructor.
DestroyWorkBound == dq'.hNextSeq <= MaxDestroyWork + 1

NextDestroy ==
    \/ QueueEvent /\ ~dq.hDestroyed /\ DestroyWorkBound
    \/ QueueFrame /\ ~dq.hDestroyed /\ DestroyWorkBound
    \/ NotifyReady /\ ~dq.hDestroyed
    \/ ReleaseFrame /\ ~dq.hDestroyed
    \/ RenderingCompletes
    \/ DestructorEnter
    \/ DestructorReturn
    \/ WorkerExit
    \/ WorkerDropRedundant
    \/ WorkerLoopDropRedundant
    \/ WorkerPoll
    \/ WorkerWaitInLoop
    \/ WorkerConsume
    \/ WorkerAfterWaitRendering
    \/ WorkerFrameReturn
    \/ WorkerEventReturn

SpecDestroy == Init /\ [][NextDestroy]_vars


\* ------------------------------------------------------------ properties
RingItems(q) == {Ring(q)[i] : i \in 1 .. Len(Ring(q))}

\* The worker is between the lock of a consume and its last unlock.
ConsumeInProgress == workerPc \in {"waitRendering", "frameBackend", "eventBackend"}

\* C1: lastIssuedFrame never decreases: every step leaves it at a frame id that
\* is not before the one it had (wrap-around order), the worker's advance after
\* the backend's consumeWork( frame ) returns included.
C1_IssuedNeverDecreases ==
    [][IsFutureFrame(dq.mLastIssuedFrame, dq'.mLastIssuedFrame)]_vars

\* C2: a frame that was queued with id F and dropped is in the end covered
\* by lastIssuedFrame: once lastDroppedFrame is F, lastIssuedFrame eventually
\* is F or later.
C2_DroppedFrameIssued ==
    \A F \in ((0 .. MaxIndex) \X (0 .. MaxIndex)) \ {FrameIdZero} :
        (dq.mLastDroppedFrame = F) ~> IsFutureFrame(F, dq.mLastIssuedFrame)

\* C3: work items reach the backend in enqueue order: the ring read from the
\* head holds its items in the order they were enqueued, whatever was dropped
\* in between, and no item of the ring was enqueued before the item last
\* passed to the backend (the consumer took the head, nothing was skipped).
C3_Fifo ==
    LET r == Ring(dq)
    IN  /\ \A i \in 1 .. Len(r) - 1 : dq.hSeqOf[r[i]] < dq.hSeqOf[r[i + 1]]
        /\ \A i \in 1 .. Len(r) :
              \/ dq.hSeqOf[r[i]] > dq.hLastPassed
              \/ /\ dq.hSeqOf[r[i]] = dq.hLastPassed
                 /\ i = 1 /\ workerPc = "eventBackend" /\ wLocal.pItem = r[i]

\* Two items are queued behind consumed work, the second after the first.
C3_Witness ==
    /\ Len(Ring(dq)) = 2
    /\ dq.hLastPassed = 1
    /\ dq.hSeqOf[Ring(dq)[1]] = 2

\* C4: between any two steps (after every public call and wherever the queue
\* lock is released) lastIssuedFrame is not after lastQueuedFrame.
C4_IssuedNotAfterQueued == IsFutureFrame(dq.mLastIssuedFrame, dq.mLastQueuedFrame)

\* A frame has been issued and a later one queued, with a flush call made.
C4_Witness ==
    /\ dq.mLastIssuedFrame = <<1, 1>>
    /\ dq.mLastQueuedFrame = <<2, 2>>
    /\ flushPc = "syncFlip"

\* C5: between any two steps every item of the ring has an effective frame
\* that is not before lastIssuedFrame.
C5_RingNotBeforeIssued ==
    \A w \in RingItems(dq) : IsFutureFrame(dq.mLastIssuedFrame, dq.mEffectiveFrame[w])

\* A frame is inside the backend's consumeWork, lastIssuedFrame has moved past
\* the frame's effective frame by a queueDrop on the emptied ring, and an item
\* has been enqueued since.
C5_Witness ==
    /\ workerPc = "frameBackend"
    /\ wLocal.effectiveIssuedFrame = <<1, 1>>
    /\ dq.mLastIssuedFrame = <<2, 2>>
    /\ dq.mpWorkQueue # NULL

\* C6: of two adjacent items of the ring, head to tail, the second has an
\* effective frame that is not before the first's.
C6_RingEffectiveOrdered ==
    LET r == Ring(dq)
    IN  \A i \in 1 .. Len(r) - 1 :
            IsFutureFrame(dq.mEffectiveFrame[r[i]], dq.mEffectiveFrame[r[i + 1]])

\* Two items are queued and a queueDrop has rewritten the tail's effective
\* frame past its own frame id.
C6_Witness ==
    LET r == Ring(dq)
    IN  /\ Len(r) = 2
        /\ IsFrame(r[2])
        /\ dq.mEffectiveFrame[r[1]] # dq.mEffectiveFrame[r[2]]
        /\ dq.mEffectiveFrame[r[2]] # dq.mFrameId[r[2]]

\* C7: when the last call that queued an id was queueDrop( id ), the ring is
\* empty and no consume is in progress, lastIssuedFrame is that id (which is
\* lastQueuedFrame).
C7_DropIssuedOnEmptyRing ==
    (dq.hDropLast /\ dq.mpWorkQueue = NULL /\ ~ConsumeInProgress)
        => dq.mLastIssuedFrame = dq.mLastQueuedFrame

\* Every frame of the ring that is not locked for display is marked invalid.
QueuedFramesInvalid(q) ==
    \A f \in RingItems(q) \cap Frames : ~isLockedForDisplay(q, f) => ~q.mbValid[f]

\* queueFrame with the next frame id is accepted: the id becomes the last
\* queued one and the frame carrying it is the tail of the ring.
QueueFrameSucceeds(q) ==
    LET id == <<getHwcIndex(q.mLastQueuedFrame) + 1,
                getTimelineIndex(q.mLastQueuedFrame) + 1>>
        q1 == queueFrame(q, id, 1, FALSE, FALSE)
    IN  /\ q1.mLastQueuedFrame = id
        /\ q1.mpWorkQueue # NULL
        /\ q1.mFrameId[getLast(q1, q1.mpWorkQueue)] = id

\* C8: a flush( 0, 0 ) from the producer thread on a queue that holds work,
\* with the consumer not blocked, returns only with no work queued and
\* lastIssuedFrame equal to lastQueuedFrame.
C8_FlushDrainsQueue ==
    [][(/\ Flush("producer", 0, 0)
        /\ dq.mQueuedWork >= 1
        /\ ~dq.mbConsumerBlocked
        /\ flushPc' = "idle")
            => (/\ dq'.mQueuedWork = 0
                /\ dq'.mLastIssuedFrame = dq'.mLastQueuedFrame)]_vars

FlushFailed(q, r) ==
    /\ r.pc = "idle"
    /\ r.lock = NoThread
    /\ QueuedFramesInvalid(r.q)
    /\ Ring(r.q) = Ring(q)
    /\ r.q.mQueuedWork = q.mQueuedWork
    /\ r.q.mQueuedFrames = q.mQueuedFrames

C12_RingCounts ==
    /\ dq.mQueuedWork = Len(Ring(dq))
    /\ dq.mQueuedFrames = Cardinality(RingItems(dq) \cap Frames)
    /\ Cardinality(RingItems(dq)) = Len(Ring(dq))
    /\ (dq.mQueuedWork = 0) <=> (dq.mpWorkQueue = NULL)

\* A ring of a frame and an event after a frame was dropped.
C12_Witness ==
    /\ dq.mQueuedWork = 2
    /\ dq.mQueuedFrames = 1
    /\ dq.mLastDroppedFrame # FrameIdZero
    /\ RingItems(dq) \cap Events # {}

\* The pool frames locked for display.
LockedFrames(q) == {f \in Frames : isLockedForDisplay(q, f)}

C15_OnlyFrameLocked ==
    workerPc = "frameBackend" =>
        /\ LockedFrames(dq) \subseteq {wLocal.pItem}
        /\ dq.mFramesLockedForDisplay <= 1

\* C16: queueFrame fails for lack of a free frame exactly when every frame of
\* the pool is locked for display, and then leaves the ring, the counters,
\* mLastQueuedFrame and mLastIssuedFrame as they were; with a frame that is not
\* locked for display, queueFrame queues a frame carrying the new id at the
\* tail of the ring.
C16_NoFreeFrame ==
    LockFree =>
        \A id \in NextFrameIds, bRendered \in BOOLEAN :
            LET q1 == queueFrame(dq, id, 1, FALSE, bRendered)
            IN  IF LockedFrames(dq) = Frames
                THEN q1 = [dq EXCEPT !.hDropLast = FALSE]
                ELSE /\ q1.mLastQueuedFrame = id
                     /\ q1.mpWorkQueue # NULL
                     /\ LET pNewFrame == getLast(q1, q1.mpWorkQueue)
                        IN  /\ IsFrame(pNewFrame)
                            /\ q1.mFrameId[pNewFrame] = id
                            /\ q1.mEffectiveFrame[pNewFrame] = id
                            /\ ~isLockedForDisplay(dq, pNewFrame)
                     /\ q1.mQueuedFrames >= 1
                     /\ q1.mFramePoolUsed <= dq.mFramePoolUsed + 1

\* Every frame of the pool is locked for display and the producer can call
\* queueFrame.
C16_Witness ==
    /\ LockedFrames(dq) = Frames
    /\ LockFree /\ CanQueue
    /\ ~dq.hDropLast
    /\ dq.mQueuedWork >= 1

\* The frames of the pool that are neither on the ring nor locked for display,
\* and those on the ring that are not locked for display.
UnusedFrames(q) == Frames \ (RingItems(q) \cup LockedFrames(q))
DroppableFrames(q) == (RingItems(q) \cap Frames) \ LockedFrames(q)

\* What findFree does on queue q.
FindFreeCorrect(q) ==
    LET r == findFree(q)
    IN  /\ r.frame # NULL => ~isLockedForDisplay(q, r.frame)
        /\ LockedFrames(r.q) = LockedFrames(q)
        /\ LockedFrames(q) \cap RingItems(q) \subseteq RingItems(r.q)
        /\ IF UnusedFrames(q) # {}
           THEN r.frame \in UnusedFrames(q) /\ r.q = q
           ELSE IF DroppableFrames(q) # {}
           THEN /\ r.frame \in DroppableFrames(q)
                /\ \A g \in DroppableFrames(q) :
                       SignedDiff(getTimelineIndex(q.mFrameId[r.frame]),
                                  getTimelineIndex(q.mFrameId[g])) <= 0
                /\ RingItems(r.q) = RingItems(q) \ {r.frame}
                /\ r.q.mLastDroppedFrame = q.mFrameId[r.frame]
                /\ r.q.mQueuedFrames = q.mQueuedFrames - 1
           ELSE r.frame = NULL /\ r.q = q

\* C17: findFree returns a frame that is neither queued nor locked for display
\* when there is one, and drops nothing; otherwise it drops and returns the
\* queued frame not locked for display that is oldest by timeline index; it
\* never returns or drops a frame locked for display.  Stated for the queue as
\* any call of queueFrame finds it and as limitUsedFrames leaves it.
C17_FindFree == FindFreeCorrect(dq) /\ FindFreeCorrect(limitUsedFrames(dq))

\* Both frames of the pool are queued with different timeline indices and
\* neither is locked for display, the newer one in the first slot of the pool:
\* findFree has to pick the oldest.
C17_Witness ==
    /\ DroppableFrames(dq) = Frames
    /\ SignedDiff(getTimelineIndex(dq.mFrameId[1]),
                  getTimelineIndex(dq.mFrameId[2])) > 0
    /\ findFree(dq).frame = 2

\* What the queue holds of frame f: its links, ids, flags and layers.
FrameContents(q, f) ==
    <<q.mpNext[f], q.mpPrev[f], q.mFrameId[f], q.mEffectiveFrame[f],
      q.mbValid[f], q.mbLockedForDisplay[f], q.mLayerAllocCount[f],
      q.mLayerCount[f], q.mbSet[f]>>

\* C18: from the entry to the backend's consumeWork( pFrame ) until
\* releaseFrame( pFrame ), the frame is locked for display and off the ring,
\* findFree does not return it, and no step of the queue drops, invalidates,
\* resets, re-queues or rewrites it.
C18_BackendFrameUntouched ==
    /\ [](\A f \in backendFrames :
            /\ isLockedForDisplay(dq, f)
            /\ f \notin RingItems(dq)
            /\ ~isQueued(dq, f)
            /\ dq.mbSet[f]
            /\ findFree(dq).frame # f
            /\ findFree(limitUsedFrames(dq)).frame # f)
    /\ [][\A f \in backendFrames \cap backendFrames' :
            FrameContents(dq', f) = FrameContents(dq, f)]_vars

\* The backend holds a valid frame while the other frame of the pool is queued
\* and was invalidated by a flush: the next queueFrame has to drop a frame to
\* get one.
C18_Witness ==
    /\ backendFrames # {}
    /\ UnusedFrames(dq) = {}
    /\ \E f \in backendFrames : dq.mbValid[f]
    /\ \E g \in DroppableFrames(dq) : ~dq.mbValid[g]

\* C19: while the worker has released the lock for waitRendering or a backend
\* consumeWork call, the item being consumed, event or frame, is off the ring
\* or locked for display.
C19_ConsumedItemProtected ==
    ConsumeInProgress =>
        \/ wLocal.pItem \notin RingItems(dq)
        \/ IsFrame(wLocal.pItem) /\ isLockedForDisplay(dq, wLocal.pItem)

\* A thread is inside Frame::waitRendering, a backend consumeWork call or
\* syncFlip.
InUnlockedCall == ConsumeInProgress \/ flushPc = "syncFlip"

\* C20: mLockQueue is not held while a thread is inside Frame::waitRendering,
\* the backend's consumeWork( event ) or consumeWork( frame ), or syncFlip, so
\* a producer's queueFrame, queueEvent or queueDrop can run to completion
\* meanwhile; the call's return takes the lock again.
C20_UnlockedCalls ==
    InUnlockedCall =>
        /\ mLockQueue = NoThread
        /\ ENABLED QueueDrop
        /\ \A id \in NextFrameIds :
              /\ queueDrop(dq, id).mLastQueuedFrame = id
              /\ LockedFrames(dq) # Frames =>
                    queueFrame(dq, id, 1, FALSE, FALSE).mLastQueuedFrame = id
        /\ \A pEvent \in Events \ dq.heapEvents :
              pEvent \in RingItems(queueEvent(dq, pEvent))
        /\ workerPc = "frameBackend" => ENABLED WorkerFrameReturn
        /\ workerPc = "eventBackend" => ENABLED WorkerEventReturn
        /\ workerPc = "waitRendering" => ENABLED WorkerAfterWaitRendering
        /\ flushPc = "syncFlip" => ENABLED (FlushResume /\ flushPc' = "idle")

\* The worker is inside the backend's consumeWork( frame ) while a flush is
\* inside syncFlip, and work queued after the frame is on the ring.
C20_Witness ==
    /\ workerPc = "frameBackend"
    /\ flushPc = "syncFlip"
    /\ \E w \in RingItems(dq) : dq.hSeqOf[w] > dq.hLastPassed

\* The enqueue numbers of the items on the ring.
RingSeqs(q) == {q.hSeqOf[w] : w \in RingItems(q)}

\* C21: with a backend that becomes ready, returns from consumeWork and
\* releases frames, every item of the ring leaves it in the end, consumed or
\* dropped; every enqueue counts a signal for the worker and only the worker's
\* own wait step takes a signal away, so a signal sent between the worker's
\* poll and its wait is still there when it gets to the wait.
C21_NeverWedges ==
    /\ \A n \in 1 .. MaxFairWork : (n \in RingSeqs(dq)) ~> (n \notin RingSeqs(dq))
    /\ [][/\ dq'.hNextSeq > dq.hNextSeq =>
                /\ dq'.mpWorker
                /\ dq'.mSignalled = dq.mSignalled + 1
          /\ dq'.mSignalled < dq.mSignalled =>
                /\ workerPc = "wait" /\ workerPc' = "drop"
                /\ dq'.mSignalled = dq.mSignalled - 1]_vars
    /\ [](workerPc = "wait" => ENABLED WorkerWait)

\* The worker has polled and is at its wait while work is on the ring and a
\* signal is pending.
C21_Witness ==
    /\ workerPc = "wait"
    /\ dq.mQueuedWork > 0
    /\ dq.mSignalled > 0

\* C22: an event that was queued is on the ring for as long as it exists; it
\* leaves the ring only in the worker's return from consumeWork( pEvent ) for
\* that event, where it is destroyed, and it is passed to the backend only
\* once.
C22_EventsPreserved ==
    /\ [](dq.heapEvents = RingItems(dq) \cap Events)
    /\ [][\A e \in Events :
            /\ (e \in RingItems(dq) /\ e \notin RingItems(dq')) =>
                  /\ workerPc = "eventBackend" /\ wLocal.pItem = e
                  /\ workerPc' = "drop"
                  /\ e \in dq.heapEvents /\ e \notin dq'.heapEvents
            /\ (workerPc # "eventBackend" /\ workerPc' = "eventBackend"
                    /\ wLocal'.pItem = e) =>
                  /\ e = dq.mpWorkQueue
                  /\ dq.hLastPassed < dq.hSeqOf[e]
                  /\ dq'.hLastPassed = dq.hSeqOf[e]]_vars

\* An event is on the ring together with a frame that a flush has
\* invalidated.
C22_Witness ==
    /\ RingItems(dq) \cap Events # {}
    /\ \E f \in RingItems(dq) \cap Frames : ~dq.mbValid[f]

\* Two frames whose rendering is complete are queued, nothing has been
\* consumed, the worker is not past a poll that found the backend ready, and
\* no more work is enqueued.
RedundantFramesQueued ==
    /\ ~SyncBeforeFlip(dq)
    /\ dq.mConsumedWork = 0
    /\ backendFrames = {}
    /\ workerPc \in {"drop", "poll", "wait"}
    /\ dq.hNextSeq = MaxFairWork + 1
    /\ Len(Ring(dq)) = MaxFairWork
    /\ \A w \in RingItems(dq) : IsFrame(w) /\ isRenderingComplete(dq, w)

\* C23: with eBF_SYNC_BEFORE_FLIP clear, once frames whose rendering is
\* complete were queued before the backend was found ready and nothing is
\* enqueued afterwards, the backend is handed only the newest of them:
\* mConsumedFramesSinceInit does not go beyond 1.
C23_OnlyNewestConsumed ==
    [](RedundantFramesQueued => [](dq.mConsumedFramesSinceInit <= 1))

\* C24: doInvalidateFrames clears the valid flag of every frame of the ring
\* that is not locked for display and changes nothing else; the worker takes
\* an invalid head frame like any other, and its return from the backend call
\* sets mLastIssuedFrame to the effective frame the frame had when it was
\* handed over.
C24_Invalidation ==
    /\ [](doInvalidateFrames(dq) =
            [dq EXCEPT !.mbValid =
                [f \in Frames |->
                    IF f \in RingItems(dq) /\ ~isLockedForDisplay(dq, f)
                    THEN FALSE ELSE dq.mbValid[f]]])
    /\ [][(/\ workerPc = "consume" /\ workerPc' # "consume"
           /\ dq.mpWorkQueue # NULL /\ IsFrame(dq.mpWorkQueue)
           /\ ~dq.mbValid[dq.mpWorkQueue])
            => /\ wLocal'.pItem = dq.mpWorkQueue
               /\ isLockedForDisplay(dq', dq.mpWorkQueue)
               /\ IF SyncBeforeFlip(dq)
                  THEN workerPc' = "waitRendering"
                  ELSE /\ workerPc' = "frameBackend"
                       /\ dq.mpWorkQueue \in backendFrames'
                       /\ wLocal'.effectiveIssuedFrame =
                              dq.mEffectiveFrame[dq.mpWorkQueue]]_vars
    /\ [][(workerPc = "frameBackend" /\ workerPc' # "frameBackend")
            => dq'.mLastIssuedFrame = wLocal.effectiveIssuedFrame]_vars

\* The worker is inside the backend's consumeWork( frame ) with a frame that a
\* flush had invalidated.
C24_Witness ==
    /\ workerPc = "frameBackend"
    /\ wLocal.pItem \in backendFrames
    /\ ~dq.mbValid[wLocal.pItem]

\* The frames that q holds on its ring and q1 does not have their release
\* fence cancelled in q1.
DroppedAreCancelled(q, q1) ==
    \A f \in (RingItems(q) \cap Frames) \ RingItems(q1) : q1.hCancelled[f]

\* C25: a frame that leaves the ring by dropAllFrames, dropRedundantFrames or
\* findFree is reset with cancel, so its release fence is cancelled; a frame
\* handed to the backend has its release fence not cancelled, and releaseFrame
\* resets it without cancel.
C25_DropCancelsReleaseFence ==
    /\ [](/\ DroppedAreCancelled(dq, doDropAllFrames(dq))
          /\ DroppedAreCancelled(dq, doDropRedundantFrames(dq))
          /\ DroppedAreCancelled(dq, findFree(dq).q)
          /\ DroppedAreCancelled(dq, findFree(limitUsedFrames(dq)).q)
          /\ \A f \in backendFrames :
                /\ ~dq.hCancelled[f]
                /\ ~doReleaseFrame(dq, f).hCancelled[f])
    /\ [][\A f \in Frames :
            /\ (f \in RingItems(dq) /\ f \notin RingItems(dq')
                   /\ f \notin backendFrames' /\ ~dq'.mbSet[f])
                 => dq'.hCancelled[f]
            /\ (f \in backendFrames /\ f \notin backendFrames')
                 => ~dq'.hCancelled[f]]_vars

\* One frame of the pool was dropped and its release fence cancelled; the
\* other was consumed and released, its fence closed once and not cancelled.
C25_Witness ==
    /\ \E f \in Frames : dq.hCancelled[f] /\ ~dq.mbSet[f]
    /\ \E f \in Frames : ~dq.hCancelled[f] /\ ~dq.mbSet[f] /\ dq.hFenceCloses[f] = 1

\* C26: the acquire fence duplicated when a frame is set is open while the
\* frame is on the ring or locked for display, is closed exactly once when the
\* frame goes back to the pool, by the reset of dropFrame or of releaseFrame,
\* and is closed when findFree hands the frame out to be set again.
C26_AcquireFenceClosedOnce ==
    /\ \A f \in Frames :
          /\ dq.hFenceCloses[f] <= 1
          /\ IF f \in RingItems(dq) \cup LockedFrames(dq)
             THEN dq.mAcquireFence[f] >= 0 /\ dq.hFenceCloses[f] = 0
             ELSE /\ dq.mAcquireFence[f] < 0
                  /\ dq.hFenceCloses[f] = IF dq.mLayerAllocCount[f] > 0 THEN 1 ELSE 0
    /\ \A f \in backendFrames : doReleaseFrame(dq, f).hFenceCloses[f] = 1
    /\ \A f \in DroppableFrames(dq) : dropFrame(dq, f).hFenceCloses[f] = 1
    /\ LET r == findFree(limitUsedFrames(dq))
       IN  r.frame # NULL =>
              /\ r.q.mAcquireFence[r.frame] < 0
              /\ ~r.q.mbSet[r.frame]

\* Two frames were consumed and a third is on the ring: with a pool of two,
\* a pool frame is in use for the second time, its fence open again.
C26_Witness ==
    /\ dq.mConsumedFramesSinceInit = 2
    /\ \E f \in RingItems(dq) \cap Frames :
          dq.mAcquireFence[f] >= 0 /\ dq.hFenceCloses[f] = 0

\* C27: a flush called on the producer's thread, with a worker started and
\* the consumer not blocked, finds getWorkerTid() different from its own
\* thread id and enters doFlush.
C27_ProducerFlushEntersDoFlush ==
    (flushPc = "idle" /\ LockFree /\ dq.mpWorker /\ ~dq.mbConsumerBlocked) =>
        /\ getWorkerTid(dq, "producer") # "producer"
        /\ \A frameIndex \in 0 .. 1, timeoutNs \in 0 .. 1 :
              flush(dq, "producer", frameIndex, timeoutNs).pc = "loop"

\* C28: queueDrop( id ) on a ring that holds work writes id to the effective
\* frame of the last item of the ring and to mLastQueuedFrame and changes
\* nothing else; the consume of an item sets mLastIssuedFrame to the item's
\* effective frame (for a frame, as it is when the frame is handed over), not
\* to the frame's own id.
C28_DropCoalesced ==
    /\ [](dq.mpWorkQueue # NULL =>
            \A id \in NextFrameIds :
                queueDrop(dq, id) =
                    [dq EXCEPT !.mEffectiveFrame[Ring(dq)[Len(Ring(dq))]] = id,
                               !.mLastQueuedFrame = id,
                               !.hDropLast = TRUE])
    /\ [][/\ (workerPc # "frameBackend" /\ workerPc' = "frameBackend") =>
                wLocal'.effectiveIssuedFrame = dq.mEffectiveFrame[wLocal'.pItem]
          /\ (workerPc = "frameBackend" /\ workerPc' # "frameBackend") =>
                dq'.mLastIssuedFrame = wLocal.effectiveIssuedFrame
          /\ (workerPc = "eventBackend" /\ workerPc' # "eventBackend") =>
                dq'.mLastIssuedFrame = dq.mEffectiveFrame[wLocal.pItem]]_vars

\* The worker has returned from consumeWork( frame ) for a frame into which a
\* later drop was coalesced: mLastIssuedFrame is past the id of the frame the
\* backend holds.
C28_Witness ==
    /\ workerPc = "drop"
    /\ \E f \in backendFrames :
          /\ dq.mLastIssuedFrame = dq.mEffectiveFrame[f]
          /\ dq.mLastIssuedFrame # dq.mFrameId[f]
          /\ IsFutureFrame(dq.mFrameId[f], dq.mLastIssuedFrame)

\* C29: the frame id that mLastIssuedFrame is set to after the backend's
\* consumeWork( pFrame ) returns is the frame's effective frame as it was when
\* the frame was dequeued, before the unlock; it is not before the frame's own
\* id; and the return changes nothing but mLastIssuedFrame and reads nothing
\* of the frame, which may have been released and set again meanwhile.
C29_IssuedFromCapturedFrame ==
    [][/\ (workerPc # "frameBackend" /\ workerPc' = "frameBackend") =>
             /\ wLocal'.effectiveIssuedFrame = dq.mEffectiveFrame[wLocal'.pItem]
             /\ IsFutureFrame(dq.mFrameId[wLocal'.pItem], wLocal'.effectiveIssuedFrame)
       /\ (workerPc = "frameBackend" /\ workerPc' = "frameBackend") =>
             wLocal' = wLocal
       /\ (workerPc = "frameBackend" /\ workerPc' # "frameBackend") =>
             dq' = [dq EXCEPT !.mLastIssuedFrame = wLocal.effectiveIssuedFrame]]_vars

\* The worker is inside consumeWork( pFrame ); the backend has released the
\* frame and the producer has queued it again with a later id.
C29_Witness ==
    /\ workerPc = "frameBackend"
    /\ wLocal.pItem \notin backendFrames
    /\ wLocal.pItem \in RingItems(dq)
    /\ dq.mEffectiveFrame[wLocal.pItem] # wLocal.effectiveIssuedFrame

\* C30: queueEvent gives the event the effective frame mLastQueuedFrame has at
\* the call and leaves mLastQueuedFrame as it is; the worker's return from
\* consumeWork( pEvent ) sets mLastIssuedFrame to the effective frame the event
\* has then; an event on the ring between two frames carries an effective
\* frame that is not before the id of the frame before it and not after the
\* effective frame of the frame after it.
C30_EventEffectiveFrame ==
    /\ [](/\ \A pEvent \in Events \ dq.heapEvents :
                LET q1 == queueEvent(dq, pEvent)
                IN  /\ q1.mEffectiveFrame[pEvent] = dq.mLastQueuedFrame
                    /\ q1.mLastQueuedFrame = dq.mLastQueuedFrame
                    /\ q1.mLastIssuedFrame = dq.mLastIssuedFrame
                    /\ Ring(q1) = Ring(dq) \o <<pEvent>>
          /\ LET r == Ring(dq)
             IN  \A i \in 1 .. Len(r) :
                    ~IsFrame(r[i]) =>
                       /\ i > 1 /\ IsFrame(r[i - 1]) =>
                             IsFutureFrame(dq.mFrameId[r[i - 1]], dq.mEffectiveFrame[r[i]])
                       /\ i < Len(r) =>
                             IsFutureFrame(dq.mEffectiveFrame[r[i]],
                                           dq.mEffectiveFrame[r[i + 1]]))
    /\ [][(workerPc = "eventBackend" /\ workerPc' # "eventBackend") =>
             /\ dq'.mLastIssuedFrame = dq.mEffectiveFrame[wLocal.pItem]
             /\ dq'.mLastQueuedFrame = dq.mLastQueuedFrame]_vars

\* An event is on the ring between two frames, with the effective frame of the
\* frame before it, which is not that of the frame after it.
C30_Witness ==
    LET r == Ring(dq)
    IN  /\ Len(r) = 3
        /\ IsFrame(r[1]) /\ ~IsFrame(r[2]) /\ IsFrame(r[3])
        /\ dq.mEffectiveFrame[r[2]] = dq.mFrameId[r[1]]
        /\ dq.mEffectiveFrame[r[2]] # dq.mFrameId[r[3]]

\* The frames of the ring of q that are not locked for display and have a
\* frame queued after them whose rendering is complete.
RedundantFrames(q) ==
    LET r == Ring(q)
    IN  {r[i] : i \in {k \in 1 .. Len(r) :
                /\ IsFrame(r[k]) /\ ~isLockedForDisplay(q, r[k])
                /\ \E j \in (k + 1) .. Len(r) :
                      IsFrame(r[j]) /\ isRenderingComplete(q, r[j])}}

\* Sequence s without the items of set d.
SeqWithout(s, d) ==
    LET Keep(w) == w \notin d
    IN  SelectSeq(s, Keep)

\* C31: doDropRedundantFrames drops exactly the frames that are not locked for
\* display and have a rendering-complete frame queued after them; the other
\* items stay on the ring in their order (events, locked frames and the last
\* item among them), and a ring of fewer than two items is left as it is.
C31_DropRedundant ==
    LET q1 == doDropRedundantFrames(dq)
    IN  /\ Ring(q1) = SeqWithout(Ring(dq), RedundantFrames(dq))
        /\ q1.mQueuedFrames = dq.mQueuedFrames - Cardinality(RedundantFrames(dq))
        /\ LockedFrames(q1) = LockedFrames(dq)
        /\ q1.heapEvents = dq.heapEvents
        /\ Len(Ring(dq)) < 2 => q1 = dq
        /\ Len(Ring(dq)) >= 1 => Ring(dq)[Len(Ring(dq))] \in RingItems(q1)

\* A ring of three items ending in an event, whose first frame is redundant
\* because of the frame behind it.
C31_Witness ==
    /\ Len(Ring(dq)) = 3
    /\ ~IsFrame(Ring(dq)[3])
    /\ RedundantFrames(dq) = {Ring(dq)[1]}

\* The queue of a worker waiting in waitRendering as it is after the lock is
\* taken again, the frame waited on is unlocked and doDropRedundantFrames ran.
AfterDropPass == doDropRedundantFrames(unlockFrameForDisplay(dq, wLocal.pItem))

\* Some frame behind the head of the ring of q has its rendering complete.
ReadyFrameBehindHead(q) ==
    \E j \in 2 .. Len(Ring(q)) :
        IsFrame(Ring(q)[j]) /\ isRenderingComplete(q, Ring(q)[j])

\* C32: with eBF_SYNC_BEFORE_FLIP the head of the ring is the frame waited on
\* when the lock is taken again; the frame handed to the backend is the head of
\* the ring after the pass of doDropRedundantFrames that follows, no frame
\* behind it is rendering-complete in that pass, and the frame waited on is
\* dropped exactly when a frame with complete rendering is queued behind it.
C32_NewestReadyFrameFlipped ==
    [][/\ workerPc = "waitRendering" =>
             /\ SyncBeforeFlip(dq)
             /\ dq.mpWorkQueue = wLocal.pItem
             /\ isLockedForDisplay(dq, wLocal.pItem)
             /\ AfterDropPass.mpWorkQueue # NULL
             /\ IsFrame(AfterDropPass.mpWorkQueue) => ~ReadyFrameBehindHead(AfterDropPass)
             /\ ReadyFrameBehindHead(dq) <=> wLocal.pItem \notin RingItems(AfterDropPass)
             /\ ReadyFrameBehindHead(dq) => AfterDropPass.hCancelled[wLocal.pItem]
             /\ ~ReadyFrameBehindHead(dq) => AfterDropPass.mpWorkQueue = wLocal.pItem
       /\ (workerPc = "waitRendering" /\ workerPc' = "frameBackend") =>
             /\ wLocal'.pItem = AfterDropPass.mpWorkQueue
             /\ backendFrames' = backendFrames \cup {AfterDropPass.mpWorkQueue}
             /\ wLocal'.pItem \notin RingItems(dq')
             /\ isLockedForDisplay(dq', wLocal'.pItem)
       /\ (workerPc = "waitRendering" /\ workerPc' \notin {"waitRendering", "frameBackend"}) =>
             ~IsFrame(AfterDropPass.mpWorkQueue)]_vars

\* The worker waits for the rendering of the head frame while a frame queued
\* behind it has its rendering complete: the pass drops the head frame and the
\* newer frame is the one to hand over.
C32_Witness ==
    /\ workerPc = "waitRendering"
    /\ ReadyFrameBehindHead(dq)
    /\ IsFrame(AfterDropPass.mpWorkQueue)
    /\ AfterDropPass.mpWorkQueue # wLocal.pItem

\* C33: with eBF_SYNC_BEFORE_FLIP, when the head of the ring after the pass of
\* doDropRedundantFrames is an event, doConsumeFrame returns without a backend
\* call: the lock for display it took on entry is given back and no other is
\* taken, mConsumedWork and mLastIssuedFrame stay, the event is the head of the
\* ring, it stays the head until the worker consumes, and the worker's next
\* consumeWork hands that event to the backend.
C33_EventHeadAfterDropPass ==
    [][/\ (workerPc = "consume" /\ workerPc' = "waitRendering") =>
             /\ dq'.mFramesLockedForDisplay = dq.mFramesLockedForDisplay + 1
             /\ LockedFrames(dq') = LockedFrames(dq) \cup {wLocal'.pItem}
       /\ (workerPc = "waitRendering" /\ ~IsFrame(AfterDropPass.mpWorkQueue)
             /\ workerPc' # "waitRendering") =>
             /\ workerPc' = "drop"
             /\ wLocal' = NoLocals
             /\ backendFrames' = backendFrames
             /\ dq'.mFramesLockedForDisplay = dq.mFramesLockedForDisplay - 1
             /\ LockedFrames(dq') = LockedFrames(dq) \ {wLocal.pItem}
             /\ dq'.mConsumedWork = dq.mConsumedWork
             /\ dq'.mConsumedFramesSinceInit = dq.mConsumedFramesSinceInit
             /\ dq'.mLastIssuedFrame = dq.mLastIssuedFrame
             /\ dq'.mpWorkQueue \in dq.heapEvents
             /\ dq'.heapEvents = dq.heapEvents
       /\ (dq.mpWorkQueue \in dq.heapEvents /\ workerPc # "eventBackend") =>
             dq'.mpWorkQueue = dq.mpWorkQueue
       /\ (dq.mpWorkQueue \in dq.heapEvents /\ workerPc = "consume"
             /\ workerPc' # "consume") =>
             /\ workerPc' = "eventBackend"
             /\ wLocal'.pItem = dq.mpWorkQueue]_vars

\* The worker waits for the rendering of the head frame, an event is queued
\* behind it and a rendering-complete frame behind the event: the pass drops the
\* head frame and leaves the event at the head.
C33_Witness ==
    /\ workerPc = "waitRendering"
    /\ AfterDropPass.mpWorkQueue \in dq.heapEvents
    /\ wLocal.pItem \notin RingItems(AfterDropPass)


\* The frames on the ring of q that are not locked for display.
UnlockedRingFrames(q) ==
    {f \in RingItems(q) \cap Frames : ~isLockedForDisplay(q, f)}

\* C34: dropAllFrames visits every item of the ring once, in ring order, also
\* when it drops the head; afterwards the ring holds no frame that is not
\* locked for display, and the events and the locked frames are on it in the
\* order they had.
C34_DropAllFrames ==
    LET q1 == doDropAllFrames(dq)
    IN  /\ DropAllVisits(dq, dq.mpWorkQueue, dq.mpWorkQueue = NULL) = Ring(dq)
        /\ UnlockedRingFrames(q1) = {}
        /\ Ring(q1) = SeqWithout(Ring(dq), UnlockedRingFrames(dq))
        /\ q1.heapEvents = dq.heapEvents
        /\ RingItems(dq) \cap dq.heapEvents = RingItems(q1) \cap q1.heapEvents
        /\ q1.mQueuedWork = Len(Ring(q1))
        /\ q1.mQueuedFrames = Cardinality(RingItems(q1) \cap Frames)

\* The head of the ring is a frame that is not locked for display, an event is
\* queued behind it and a frame behind the event: dropAllFrames drops the head
\* and goes on to the frame behind the event.
C34_Witness ==
    /\ Len(Ring(dq)) = 3
    /\ dq.mpWorkQueue \in UnlockedRingFrames(dq)
    /\ Ring(dq)[2] \in dq.heapEvents
    /\ Ring(dq)[3] \in UnlockedRingFrames(dq)
    /\ Ring(doDropAllFrames(dq)) = <<Ring(dq)[2]>>


\* Queue q1 has the issued and queued frame ids, the consumed work and the
\* locks for display of queue q.
DropLeavesSequence(q, q1) ==
    /\ q1.mLastIssuedFrame = q.mLastIssuedFrame
    /\ q1.mLastQueuedFrame = q.mLastQueuedFrame
    /\ q1.mConsumedWork = q.mConsumedWork
    /\ q1.mFramesLockedForDisplay = q.mFramesLockedForDisplay
    /\ LockedFrames(q1) = LockedFrames(q)

\* C35: dropFrame takes exactly the frame off the ring, sets mLastDroppedFrame
\* to its frame id, takes one off mQueuedWork, mQueuedFrames and mFramePoolUsed
\* and leaves mLastIssuedFrame, mLastQueuedFrame, mConsumedWork and
\* mFramesLockedForDisplay as they are; so do dropAllFrames,
\* dropRedundantFrames and findFree, which drop through it.
C35_DropFrame ==
    /\ \A f \in DroppableFrames(dq) :
          LET q1 == dropFrame(dq, f)
          IN  /\ Ring(q1) = SeqWithout(Ring(dq), {f})
              /\ q1.mLastDroppedFrame = dq.mFrameId[f]
              /\ q1.mQueuedWork = dq.mQueuedWork - 1
              /\ q1.mQueuedFrames = dq.mQueuedFrames - 1
              /\ q1.mFramePoolUsed = dq.mFramePoolUsed - 1
              /\ DropLeavesSequence(dq, q1)
    /\ DropLeavesSequence(dq, doDropAllFrames(dq))
    /\ DropLeavesSequence(dq, doDropRedundantFrames(dq))
    /\ DropLeavesSequence(dq, findFree(dq).q)

\* Two frames that can be dropped are on the ring after a frame was issued, and
\* the frame id of the older one is neither the issued nor the last queued one.
C35_Witness ==
    /\ Cardinality(DroppableFrames(dq)) = 2
    /\ dq.mLastIssuedFrame # FrameIdZero
    /\ dq.mFrameId[dq.mpWorkQueue] # dq.mLastQueuedFrame
    /\ dq.mpWorkQueue \in DroppableFrames(dq)
    /\ dropFrame(dq, dq.mpWorkQueue).mLastDroppedFrame # dq.mLastDroppedFrame


\* C36 as stated: a queueFrame whose Frame::set fails on the allocation of the
\* layers leaves the chosen frame unused and the accounting as if the frame had
\* not been taken: mFramePoolUsed is what it was when the frame was found,
\* mLastQueuedFrame is unchanged and nothing is appended to the ring.
C36_FailedSetLeavesPoolUnused ==
    \A id \in NextFrameIds, stackSize \in StackSizes :
        LET r == findFree(limitUsedFrames(dq))
            q1 == queueFrame(dq, id, stackSize, TRUE, FALSE)
        IN  (r.frame # NULL /\ dq.mLayerAllocCount[r.frame] < stackSize) =>
                /\ Ring(q1) = Ring(r.q)
                /\ q1.mLastQueuedFrame = dq.mLastQueuedFrame
                /\ ~isQueued(q1, r.frame) /\ ~isLockedForDisplay(q1, r.frame)
                /\ q1.mFramePoolUsed = r.q.mFramePoolUsed


C38_ReleaseFrame ==
    /\ \A f \in backendFrames :
          LET q1 == doReleaseFrame(dq, f)
          IN  /\ isLockedForDisplay(dq, f) /\ ~isLockedForDisplay(q1, f)
              /\ LockedFrames(q1) = LockedFrames(dq) \ {f}
              /\ ~q1.mbSet[f] /\ q1.mAcquireFence[f] < 0
              /\ ~q1.hCancelled[f]
              /\ q1.mFramesLockedForDisplay = dq.mFramesLockedForDisplay - 1
              /\ q1.mFramePoolUsed = dq.mFramePoolUsed - 1
              /\ Ring(q1) = Ring(dq)
              /\ q1.mQueuedWork = dq.mQueuedWork
              /\ q1.mQueuedFrames = dq.mQueuedFrames
              /\ q1.mLastIssuedFrame = dq.mLastIssuedFrame
              /\ q1.mLastQueuedFrame = dq.mLastQueuedFrame
              /\ q1.mConsumedWork = dq.mConsumedWork
    /\ (/\ dq.hNextSeq = 2 /\ ~dq.hDropLast
        /\ dq.mConsumedFramesSinceInit = 1 /\ ~ConsumeInProgress
        /\ backendFrames = {}) =>
          /\ dq.mFramePoolUsed = 0
          /\ dq.mFramesLockedForDisplay = 0
          /\ dq.mpWorkQueue = NULL
          /\ dq.mLastIssuedFrame = dq.mLastQueuedFrame

\* One frame, id (1,1), was queued, consumed and released, and nothing else was
\* queued or dropped.
C38_Witness ==
    /\ dq.hNextSeq = 2 /\ ~dq.hDropLast
    /\ dq.mConsumedFramesSinceInit = 1 /\ ~ConsumeInProgress
    /\ backendFrames = {}
    /\ dq.mLastIssuedFrame = <<1, 1>>
    /\ dq.mLastDroppedFrame = FrameIdZero
    /\ \E f \in Frames : dq.hFenceCloses[f] = 1 /\ ~dq.hCancelled[f]


\* The items linked into a ring of q: those with a mpNext or a mpPrev link.
LinkedItems(q) == {w \in Items : q.mpNext[w] # NULL \/ q.mpPrev[w] # NULL}

\* C39: the ring read from the head along mpNext is the list of the items
\* queued and not yet dequeued, in the order they were queued; mpNext and
\* mpPrev are inverses of each other on it; the head's mpPrev is the item queued
\* last; the head is NULL exactly when no item is linked; isQueued holds exactly
\* for the items of the ring; WorkItem::queue appends at the tail and
\* WorkItem::dequeue takes out the one item, the head's successor becoming the
\* head when the head is dequeued.
C39_RingIsList ==
    LET r == Ring(dq)
    IN  /\ \A i, j \in 1 .. Len(r) : i < j =>
              /\ r[i] # r[j]
              /\ dq.hSeqOf[r[i]] < dq.hSeqOf[r[j]]
        /\ \A w \in Items : isQueued(dq, w) <=> w \in RingItems(dq)
        /\ LinkedItems(dq) = RingItems(dq)
        /\ dq.mpWorkQueue = NULL <=> LinkedItems(dq) = {}
        /\ dq.mpWorkQueue # NULL => r[1] = dq.mpWorkQueue
        /\ \A i \in 1 .. Len(r) :
              /\ getNext(dq, r[i]) = r[(i % Len(r)) + 1]
              /\ getLast(dq, getNext(dq, r[i])) = r[i]
              /\ getNext(dq, getLast(dq, r[i])) = r[i]
        /\ dq.mpWorkQueue # NULL => getLast(dq, dq.mpWorkQueue) = r[Len(r)]
        /\ \A w \in Items \ RingItems(dq) :
              Ring(WorkItemQueue(dq, w)) = Append(r, w)
        /\ \A w \in RingItems(dq) :
              LET q1 == WorkItemDequeue(dq, w)
              IN  /\ Ring(q1) = SeqWithout(r, {w})
                  /\ ~isQueued(q1, w)
                  /\ LinkedItems(q1) = RingItems(dq) \ {w}
                  /\ (w = dq.mpWorkQueue /\ Len(r) > 1) => q1.mpWorkQueue = r[2]
                  /\ (w = dq.mpWorkQueue /\ Len(r) = 1) => q1.mpWorkQueue = NULL
                  /\ w # dq.mpWorkQueue => q1.mpWorkQueue = dq.mpWorkQueue

\* The ring holds the first and the third item queued: the second was taken out
\* of the middle of a ring of three.
C39_Witness ==
    /\ Len(Ring(dq)) = 2
    /\ dq.hSeqOf[Ring(dq)[1]] = 1
    /\ dq.hSeqOf[Ring(dq)[2]] = 3

\* C40 as stated: the destruction of a drained queue cannot deadlock: while
\* ~DisplayQueue holds the queue lock and waits in the join of the worker
\* thread, the join can return or the worker thread can take a step, also when
\* the worker is about to take the queue lock in dropRedundantFrames or in
\* consumeWork.
C40_DestructorNeverDeadlocks ==
    mLockQueue = "destructor" => ENABLED (DestructorReturn \/ WorkerStep)

====
